---- MODULE Spec2Model ----
(***************************************************************************)
(* Model of build.py, the Colored Subtitles resource pack builder.         *)
(*                                                                         *)
(* Python strings are modelled as sequences of one-character strings, so   *)
(* that startswith, rstrip, replace, split, partition and the ordering     *)
(* used by sorted() are computed and not assumed.  A dict is modelled as   *)
(* the sequence of its <<key, value>> items in insertion order, with       *)
(* distinct keys.                                                          *)
(***************************************************************************)
EXTENDS Integers, Sequences, FiniteSets, TLC

(***************************************************************************)
(* Python str primitives                                                   *)
(***************************************************************************)

\* Code points of the characters the model uses (the order sorted() uses).
CharCode ==
  [c \in {"\n", "\r", " ", "#", ".", "=", "§"} |->
     CASE c = "\n" -> 10 [] c = "\r" -> 13 [] c = " " -> 32 [] c = "#" -> 35
       [] c = "." -> 46 [] c = "=" -> 61 [] c = "§" -> 167] @@
  [c \in {"0", "1", "2", "3", "4", "5", "6", "7", "8", "9"} |->
     CASE c = "0" -> 48 [] c = "1" -> 49 [] c = "2" -> 50 [] c = "3" -> 51
       [] c = "4" -> 52 [] c = "5" -> 53 [] c = "6" -> 54 [] c = "7" -> 55
       [] c = "8" -> 56 [] c = "9" -> 57] @@
  [c \in {"A", "D", "M"} |->
     CASE c = "A" -> 65 [] c = "D" -> 68 [] c = "M" -> 77] @@
  [c \in {"a", "b", "c", "d", "e", "f", "g", "h", "i", "j", "k", "l", "m"} |->
     CASE c = "a" -> 97 [] c = "b" -> 98 [] c = "c" -> 99 [] c = "d" -> 100
       [] c = "e" -> 101 [] c = "f" -> 102 [] c = "g" -> 103 [] c = "h" -> 104
       [] c = "i" -> 105 [] c = "j" -> 106 [] c = "k" -> 107 [] c = "l" -> 108
       [] c = "m" -> 109] @@
  [c \in {"n", "o", "p", "q", "r", "s", "t", "u", "v", "w", "x", "y", "z"} |->
     CASE c = "n" -> 110 [] c = "o" -> 111 [] c = "p" -> 112 [] c = "q" -> 113
       [] c = "r" -> 114 [] c = "s" -> 115 [] c = "t" -> 116 [] c = "u" -> 117
       [] c = "v" -> 118 [] c = "w" -> 119 [] c = "x" -> 120 [] c = "y" -> 121
       [] c = "z" -> 122]

\* The characters str.rstrip() with no argument strips.
Whitespace == {" ", "\n", "\r"}

\* s.startswith(prefix)
StartsWith(s, prefix) ==
  /\ Len(prefix) <= Len(s)
  /\ SubSeq(s, 1, Len(prefix)) = prefix

\* a < b for Python str: lexicographic by code point.
RECURSIVE StrLess(_, _)
StrLess(a, b) ==
  IF b = <<>> THEN FALSE
  ELSE IF a = <<>> THEN TRUE
  ELSE IF Head(a) = Head(b) THEN StrLess(Tail(a), Tail(b))
  ELSE CharCode[Head(a)] < CharCode[Head(b)]

\* sorted(keys) for a collection of distinct strings.
RECURSIVE Sorted(_)
Sorted(S) ==
  IF S = {} THEN <<>>
  ELSE LET least == CHOOSE a \in S : \A b \in S \ {a} : StrLess(a, b)
       IN  <<least>> \o Sorted(S \ {least})

\* s.rstrip()
RECURSIVE RStrip(_)
RStrip(s) ==
  IF s # <<>> /\ s[Len(s)] \in Whitespace
    THEN RStrip(SubSeq(s, 1, Len(s) - 1))
    ELSE s

\* s.replace(c, '')
Remove(s, c) == SelectSeq(s, LAMBDA x : x # c)

\* Index of the first occurrence of c in s, 0 when there is none.
RECURSIVE Find(_, _, _)
Find(s, c, i) ==
  IF i > Len(s) THEN 0
  ELSE IF s[i] = c THEN i
  ELSE Find(s, c, i + 1)

\* s.split(c): always at least one piece.
RECURSIVE Split(_, _)
Split(s, c) ==
  LET i == Find(s, c, 1)
  IN  IF i = 0 THEN <<s>>
      ELSE <<SubSeq(s, 1, i - 1)>> \o Split(SubSeq(s, i + 1, Len(s)), c)

\* s.partition(c)[::2]: the text before the first c and the text after it;
\* the whole of s and '' when s holds no c.
Partition(s, c) ==
  LET i == Find(s, c, 1)
  IN  IF i = 0 THEN <<s, <<>>>>
      ELSE <<SubSeq(s, 1, i - 1), SubSeq(s, i + 1, Len(s))>>

(***************************************************************************)
(* Python dict, as the sequence of its items                               *)
(***************************************************************************)

DictKeys(d) == {d[i][1] : i \in 1..Len(d)}

\* d[key]
DictGet(d, key) == d[CHOOSE i \in 1..Len(d) : d[i][1] = key][2]

\* d[key] = value: a present key keeps its place, a new key goes last.
DictSet(d, key, value) ==
  IF key \in DictKeys(d)
    THEN [i \in 1..Len(d) |-> IF d[i][1] = key THEN <<key, value>> ELSE d[i]]
    ELSE Append(d, <<key, value>>)

\* The dict built from items in order (a dict comprehension, json.loads).
RECURSIVE DictOf(_)
DictOf(items) ==
  IF items = <<>> THEN <<>>
  ELSE LET last == items[Len(items)]
       IN  DictSet(DictOf(SubSeq(items, 1, Len(items) - 1)), last[1], last[2])

\* d1 == d2 for dicts: same keys, same values, whatever the order.
DictEq(d1, d2) ==
  /\ DictKeys(d1) = DictKeys(d2)
  /\ \A k \in DictKeys(d1) : DictGet(d1, k) = DictGet(d2, k)

(***************************************************************************)
(* Program constants                                                       *)
(***************************************************************************)

Str_1_6 == <<"1", ".", "6">>
Str_1_7 == <<"1", ".", "7">>
Str_1_8 == <<"1", ".", "8">>
Str_1_9 == <<"1", ".", "9">>
Str_1_10 == <<"1", ".", "1", "0">>
Str_1_11 == <<"1", ".", "1", "1">>
Str_1_12 == <<"1", ".", "1", "2">>
Str_1_13 == <<"1", ".", "1", "3">>
Str_1_14 == <<"1", ".", "1", "4">>
Str_1_15 == <<"1", ".", "1", "5">>
Str_1_16 == <<"1", ".", "1", "6">>
Str_1_16_2 == <<"1", ".", "1", "6", ".", "2">>
Str_1_16_5 == <<"1", ".", "1", "6", ".", "5">>
Str_1_17 == <<"1", ".", "1", "7">>
Str_1_17_1 == <<"1", ".", "1", "7", ".", "1">>
Str_1_18 == <<"1", ".", "1", "8">>
Str_1_19 == <<"1", ".", "1", "9">>

\* pack_format_map.items(), in insertion order (the repeated '1.15' is one key).
pack_format_map ==
  << <<Str_1_6, 1>>, <<Str_1_7, 1>>, <<Str_1_8, 1>>, <<Str_1_9, 2>>,
     <<Str_1_10, 2>>, <<Str_1_11, 3>>, <<Str_1_12, 3>>, <<Str_1_13, 4>>,
     <<Str_1_14, 4>>, <<Str_1_15, 5>>, <<Str_1_16, 5>>, <<Str_1_16_2, 6>>,
     <<Str_1_16_5, 6>>, <<Str_1_17, 7>>, <<Str_1_17_1, 7>>, <<Str_1_18, 8>>,
     <<Str_1_19, 9>> >>

\* color_codes
color_codes ==
  [dark_red |-> <<"§", "4">>, red |-> <<"§", "c">>, gold |-> <<"§", "6">>,
   yellow |-> <<"§", "e">>, dark_green |-> <<"§", "2">>, green |-> <<"§", "a">>,
   aqua |-> <<"§", "b">>, dark_aqua |-> <<"§", "3">>, dark_blue |-> <<"§", "1">>,
   blue |-> <<"§", "9">>, light_purple |-> <<"§", "d">>,
   dark_purple |-> <<"§", "5">>, white |-> <<"§", "f">>, gray |-> <<"§", "7">>,
   dark_gray |-> <<"§", "8">>, black |-> <<"§", "0">>, reset |-> <<"§", "r">>,
   bold |-> <<"§", "l">>, italic |-> <<"§", "o">>, underline |-> <<"§", "n">>,
   strike |-> <<"§", "m">>, zalgo |-> <<"§", "k">>]

\* The pack format from which language files are JSON.
JsonFormat == 4

\* 'subtitles.'
SubtitlesPrefix == <<"s", "u", "b", "t", "i", "t", "l", "e", "s", ".">>

(***************************************************************************)
(* Language files.  A file's contents is a record: json tells whether the  *)
(* text is a JSON object; a JSON object is held as the sequence of its     *)
(* members in document order, any other text as its characters.            *)
(***************************************************************************)

LangText(chars) == [json |-> FALSE, text |-> chars, members |-> <<>>]
JsonText(items) == [json |-> TRUE, text |-> <<>>, members |-> items]

\* A loader that drops the lines holding no '='.
load_language_skipping(contents, pack_format) ==
  IF pack_format >= JsonFormat
    THEN DictOf(contents.members)
    ELSE LET stripped == Remove(RStrip(contents.text), "\r")
             lines == SelectSeq(Split(stripped, "\n"),
                                LAMBDA l : l # <<>> /\ Find(l, "=", 1) # 0)
         IN  DictOf([i \in 1..Len(lines) |-> Partition(lines[i], "=")])

\* load_language(contents, pack_format)
load_language(contents, pack_format) ==
  IF pack_format >= JsonFormat
    THEN DictOf(contents.members)
    ELSE LET stripped == Remove(RStrip(contents.text), "\r")
             lines == SelectSeq(Split(stripped, "\n"), LAMBDA l : l # <<>>)
         IN  DictOf([i \in 1..Len(lines) |-> Partition(lines[i], "=")])

\* The lines '%s=%s\n' of the keys order[i..], joined.
RECURSIVE JoinLines(_, _, _)
JoinLines(translation, order, i) ==
  IF i > Len(order) THEN <<>>
  ELSE order[i] \o <<"=">> \o DictGet(translation, order[i]) \o <<"\n">>
         \o JoinLines(translation, order, i + 1)

\* dump_language(translation, pack_format)
dump_language(translation, pack_format) ==
  IF pack_format >= JsonFormat
    THEN JsonText(translation)
    ELSE LangText(JoinLines(translation, Sorted(DictKeys(translation)), 1))

(***************************************************************************)
(* generate_pack: the pure parts                                           *)
(***************************************************************************)

\* pack_format is not bound: no key of pack_format_map matched.
Unbound == 0

\* Lines 148-150 from entry i on: each matching key rebinds pack_format.
RECURSIVE GuessFrom(_, _, _)
GuessFrom(version, i, pack_format) ==
  IF i > Len(pack_format_map) THEN pack_format
  ELSE GuessFrom(version, i + 1,
                 IF StartsWith(version, pack_format_map[i][1])
                   THEN pack_format_map[i][2]
                   ELSE pack_format)

\* A loop that stops at the first matching key.
RECURSIVE GuessFirstFrom(_, _, _)
GuessFirstFrom(version, i, pack_format) ==
  IF i > Len(pack_format_map) THEN pack_format
  ELSE IF StartsWith(version, pack_format_map[i][1])
    THEN pack_format_map[i][2]
    ELSE GuessFirstFrom(version, i + 1, pack_format)

GuessFirst(version) == GuessFirstFrom(version, 1, Unbound)

\* The pack format guessed for version (lines 148-150).
GuessPackFormat(version) == GuessFrom(version, 1, Unbound)

\* new_color = None
None == "<None>"

\* Lines 175-177 from rule i on: each matching rule rebinds new_color.
RECURSIVE ColorFrom(_, _, _, _)
ColorFrom(key, colors, i, new_color) ==
  IF i > Len(colors) THEN new_color
  ELSE ColorFrom(key, colors, i + 1,
                 IF StartsWith(key, colors[i][1]) THEN colors[i][2]
                                                   ELSE new_color)

\* A loop that stops at the first matching rule.
RECURSIVE ColorFirstFrom(_, _, _, _)
ColorFirstFrom(key, colors, i, new_color) ==
  IF i > Len(colors) THEN new_color
  ELSE IF StartsWith(key, colors[i][1]) THEN colors[i][2]
  ELSE ColorFirstFrom(key, colors, i + 1, new_color)

FirstColor(key, colors) == ColorFirstFrom(key, colors, 1, None)

\* new_color after the loop of lines 173-177.
NewColor(key, colors) == ColorFrom(key, colors, 1, None)

\* The outcome of lines 172-183 from key keys[i] on: ok is FALSE when
\* color_codes[new_color] raised KeyError, and then translation and
\* unhandled are as the loop left them.
RECURSIVE MapKeys(_, _, _, _, _)
MapKeys(translation, keys, i, colors, unhandled) ==
  IF i > Len(keys)
    THEN [ok |-> TRUE, translation |-> translation, unhandled |-> unhandled]
  ELSE LET key == keys[i]
           new_color == NewColor(key, colors)
       IN  IF new_color # None
             THEN IF new_color \in DOMAIN color_codes
                    THEN MapKeys(DictSet(translation, key,
                                         color_codes[new_color]
                                           \o DictGet(translation, key)),
                                 keys, i + 1, colors, unhandled)
                    ELSE [ok |-> FALSE, translation |-> translation,
                          unhandled |-> unhandled]
             ELSE MapKeys(translation, keys, i + 1, colors,
                          IF StartsWith(key, SubtitlesPrefix)
                            THEN unhandled \cup {key}
                            ELSE unhandled)

\* A mapping that leaves a key alone when color_codes lacks its color.
RECURSIVE MapKeysLenient(_, _, _, _, _)
MapKeysLenient(translation, keys, i, colors, unhandled) ==
  IF i > Len(keys)
    THEN [ok |-> TRUE, translation |-> translation, unhandled |-> unhandled]
  ELSE LET key == keys[i]
           new_color == NewColor(key, colors)
       IN  IF new_color # None
             THEN MapKeysLenient(
                    IF new_color \in DOMAIN color_codes
                      THEN DictSet(translation, key,
                                   color_codes[new_color]
                                     \o DictGet(translation, key))
                      ELSE translation,
                    keys, i + 1, colors, unhandled)
             ELSE MapKeysLenient(translation, keys, i + 1, colors,
                                 IF StartsWith(key, SubtitlesPrefix)
                                   THEN unhandled \cup {key}
                                   ELSE unhandled)

MapTranslationLenient(translation, colors, unhandled) ==
  MapKeysLenient(translation, [i \in 1..Len(translation) |-> translation[i][1]],
                 1, colors, unhandled)

\* A mapping that keeps only the keys it colored.
MapTranslationColoredOnly(translation, colors, unhandled) ==
  LET mapped == MapKeys(translation,
                        [i \in 1..Len(translation) |-> translation[i][1]], 1,
                        colors, unhandled)
  IN  [mapped EXCEPT !.translation =
         SelectSeq(mapped.translation,
                   LAMBDA item : NewColor(item[1], colors) # None)]

\* Lines 172-183 for one translation: list(translation.keys()) in order.
MapTranslation(translation, colors, unhandled) ==
  MapKeys(translation, [i \in 1..Len(translation) |-> translation[i][1]], 1,
          colors, unhandled)

(***************************************************************************)
(* What the run is given: the requested versions, the color flags,         *)
(* default_colors.json, the master manifest and the language files the     *)
(* downloads return.                                                       *)
(***************************************************************************)

\* The longest list of -v flags.
MaxVersions == 2

Str_1_99 == <<"1", ".", "9", "9">>
Str_2_0 == <<"2", ".", "0">>

VersionPool == {Str_1_12, Str_1_16_5, Str_1_19, Str_1_99, Str_2_0}

\* The master manifests: every version, or every version but one.
ManifestPool == {VersionPool, VersionPool \ {Str_1_19}}

BlockPrefix == SubtitlesPrefix \o <<"b", "l", "o", "c", "k", ".">>
EntityPrefix == SubtitlesPrefix \o <<"e", "n", "t", "i", "t", "y", ".">>
TilePrefix == <<"t", "i", "l", "e", ".">>

KeyAnvil == BlockPrefix \o <<"a">>
KeyCow == EntityPrefix \o <<"c", "o", "w">>
KeyBat == EntityPrefix \o <<"b", "a", "t">>
KeyGui == <<"g", "u", "i", ".", "d", "o", "n", "e">>

\* Contents of default_colors.json: the general prefix first, the general
\* prefix last, and no general prefix.
DefaultsGeneralFirst == << <<SubtitlesPrefix, "white">>, <<BlockPrefix, "red">> >>
DefaultsGeneralLast == << <<BlockPrefix, "red">>, <<SubtitlesPrefix, "white">> >>
DefaultsBlockOnly == << <<BlockPrefix, "red">> >>

\* The (default_colors.json, -c flags) pairs: no flag; a flag with the prefix
\* of a default; a flag with a color color_codes lacks, on keys the language
\* files hold and on keys they do not hold.
ColorPool ==
  { <<DefaultsGeneralFirst, <<>>>>,
    <<DefaultsGeneralLast, <<>>>>,
    <<DefaultsBlockOnly, <<>>>>,
    <<DefaultsBlockOnly, << <<BlockPrefix, "gold">> >>>>,
    <<DefaultsBlockOnly, << <<EntityPrefix, "pink">> >>>>,
    <<DefaultsBlockOnly, << <<TilePrefix, "pink">> >>>> }

Line(key, value) == key \o <<"=">> \o value \o <<"\n">>

LangA ==
  LangText(Line(KeyCow, <<"M", "o", "o">>) \o Line(KeyAnvil, <<"A">>)
             \o Line(KeyGui, <<"D", "o", "n", "e">>))
LangB ==
  LangText(KeyCow \o <<"=", "M", "u", "u", "\r", "\n", "\r", "\n">>
             \o KeyBat \o <<"=", "a", "=", "b", "\r", "\n">>)
LangD ==
  LangText(<<"#", "c", "\n">> \o Line(KeyAnvil, <<"A">>)
             \o Line(KeyAnvil, <<"b">>)
             \o KeyGui \o <<"=", "D", "o", "n", "e", " ", "\n">>)

JsonA ==
  JsonText(<< <<KeyCow, <<"M", "o", "o">>>>, <<KeyAnvil, <<"A">>>>,
              <<KeyGui, <<"D", "o", "n", "e", " ">>>> >>)
JsonB ==
  JsonText(<< <<KeyCow, <<"M", "u", "u">>>>, <<KeyBat, <<"a", "=", "b">>>> >>)
JsonD ==
  JsonText(<< <<KeyAnvil, <<"A">>>>, <<KeyAnvil, <<"b">>>>,
              <<KeyGui, <<"D", "o", "n", "e", "\n">>>> >>)

PathEn == "minecraft/lang/en_us"
PathPl == "minecraft/lang/pl_pl"

\* The (key, language_content) lists download_languages may collect for a
\* version.
LangLists(version) ==
  CASE version = Str_1_19 ->
         { << <<PathEn, JsonA>>, <<PathPl, JsonB>> >>,
           << <<PathEn, JsonD>>, <<PathPl, JsonB>> >> }
    [] version = Str_1_16_5 ->
         { << <<PathEn, JsonA>>, <<PathPl, JsonB>> >> }
    [] version = Str_1_12 ->
         { << <<PathEn, LangA>>, <<PathPl, LangB>> >>,
           << <<PathEn, LangD>>, <<PathPl, LangB>> >> }
    [] OTHER ->
         { << <<PathEn, LangA>>, <<PathPl, LangB>> >> }

(***************************************************************************)
(* State                                                                   *)
(***************************************************************************)

VARIABLES
  args_version,       \* args.version
  args_color,         \* args.color
  default_colors,     \* the contents of default_colors.json
  manifest,           \* the ids in master_manifest['versions']
  pc,                 \* where the run is
  color_mappings,     \* main: color_mappings
  version_languages,  \* download_languages: version_languages
  gen,                \* main: the place in version_languages of the loop of line 207
  pack_format,        \* generate_pack: pack_format
  lang,               \* generate_pack: the place in languages of the loop of line 167
  unhandled,          \* generate_pack: unhandled
  files,              \* the archives in output/, by version
  log,                \* what generate_pack printed
  c_pc,               \* codec: where the round trip is
  c_format,           \* codec: pack_format
  c_translation,      \* codec: the translation dumped
  c_contents,         \* codec: what dump_language returned
  c_loaded            \* codec: what load_language returned

inputVars == <<args_version, args_color, default_colors, manifest>>
mainVars == <<pc, color_mappings, version_languages, gen, pack_format, lang,
              unhandled, files, log>>
codecVars == <<c_pc, c_format, c_translation, c_contents, c_loaded>>
vars == <<inputVars, mainVars, codecVars>>

NoFile == [exists |-> FALSE, entries |-> <<>>]

\* The lists of 1..n elements of S.
SeqsUpTo(S, n) == UNION {[1..k -> S] : k \in 1..n}

CodecIdle ==
  /\ c_pc = "idle"
  /\ c_format = Unbound
  /\ c_translation = <<>>
  /\ c_contents = LangText(<<>>)
  /\ c_loaded = <<>>

\* The state when main starts (at least one -v is required).
Init ==
  /\ args_version \in SeqsUpTo(VersionPool, MaxVersions)
  /\ \E colors \in ColorPool :
       /\ default_colors = colors[1]
       /\ args_color = colors[2]
  /\ manifest \in ManifestPool
  /\ pc = "main"
  /\ color_mappings = <<>>
  /\ version_languages = <<>>
  /\ gen = 0
  /\ pack_format = Unbound
  /\ lang = 0
  /\ unhandled = {}
  /\ files = [v \in VersionPool |-> NoFile]
  /\ log = <<>>
  /\ CodecIdle

(***************************************************************************)
(* main and download_languages                                             *)
(***************************************************************************)

\* Lines 200-203: the defaults, then the flags.
MergeColors ==
  /\ pc = "main"
  /\ color_mappings' = default_colors \o args_color
  /\ pc' = "download"
  /\ UNCHANGED <<inputVars, version_languages, gen, pack_format, lang,
                 unhandled, files, log, codecVars>>

\* The version the loop of line 91 is at.
NextVersion == args_version[Len(version_languages) + 1]

\* A main that generates the pack of a version as soon as it is fetched.
DownloadAndGenerate ==
  /\ pc = "download"
  /\ NextVersion \in manifest
  /\ \E languages \in LangLists(NextVersion) :
       version_languages' = Append(version_languages, <<NextVersion, languages>>)
  /\ pc' = "resolve"
  /\ gen' = Len(version_languages) + 1
  /\ UNCHANGED <<inputVars, color_mappings, pack_format, lang, unhandled,
                 files, log, codecVars>>

\* Lines 91-124 for one version the manifest holds; after the last one
\* download_languages returns and main enters the loop of line 207.
DownloadVersion ==
  /\ pc = "download"
  /\ NextVersion \in manifest
  /\ \E languages \in LangLists(NextVersion) :
       version_languages' = Append(version_languages, <<NextVersion, languages>>)
  /\ IF Len(version_languages) + 1 = Len(args_version)
       THEN pc' = "resolve" /\ gen' = 1
       ELSE pc' = "download" /\ gen' = gen
  /\ UNCHANGED <<inputVars, color_mappings, pack_format, lang, unhandled,
                 files, log, codecVars>>

\* Lines 96-101: the version is not in the manifest, ValueError.
VersionNotFound ==
  /\ pc = "download"
  /\ NextVersion \notin manifest
  /\ pc' = "failed"
  /\ UNCHANGED <<inputVars, color_mappings, version_languages, gen,
                 pack_format, lang, unhandled, files, log, codecVars>>

\* Lines 72-73: urlopen raises in any of the downloads.
DownloadFails ==
  /\ pc = "download"
  /\ pc' = "failed"
  /\ UNCHANGED <<inputVars, color_mappings, version_languages, gen,
                 pack_format, lang, unhandled, files, log, codecVars>>

(***************************************************************************)
(* generate_pack                                                           *)
(***************************************************************************)

\* generate_pack's arguments in the loop of line 207.
version == version_languages[gen][1]
languages == version_languages[gen][2]

Printed(msg, arg) == [msg |-> msg, arg |-> arg]

\* A generate_pack that gives up on a version without pack format and lets
\* main go on with the next one.
ResolveSkipping ==
  /\ pc = "resolve"
  /\ log' = Append(log, Printed("Generating", version))
  /\ pack_format' = GuessPackFormat(version)
  /\ IF pack_format' # Unbound
       THEN pc' = "create" /\ gen' = gen
       ELSE IF gen < Len(version_languages)
         THEN pc' = "resolve" /\ gen' = gen + 1
         ELSE pc' = "done" /\ gen' = gen
  /\ UNCHANGED <<inputVars, color_mappings, version_languages, lang,
                 unhandled, files, codecVars>>

\* Lines 146-151: the guess of the pack format; the print of line 151
\* raises UnboundLocalError when no key matched.
Resolve ==
  /\ pc = "resolve"
  /\ log' = Append(log, Printed("Generating", version))
  /\ pack_format' = GuessPackFormat(version)
  /\ pc' = IF pack_format' = Unbound THEN "failed" ELSE "create"
  /\ UNCHANGED <<inputVars, color_mappings, version_languages, gen, lang,
                 unhandled, files, codecVars>>

\* json.dumps(metadata)
Metadata(format) ==
  JsonText(<< <<"pack", << <<"pack_format", format>>,
                           <<"description", "By Kosmolot">> >> >> >>)

\* Lines 153-165: the archive is opened for writing and gets pack.mcmeta.
Create ==
  /\ pc = "create"
  /\ files' = [files EXCEPT ![version] =
                 [exists |-> TRUE,
                  entries |-> << [name |-> "pack.mcmeta",
                                  contents |-> Metadata(pack_format)] >>]]
  /\ unhandled' = {}
  /\ lang' = 1
  /\ pc' = "languages"
  /\ UNCHANGED <<inputVars, color_mappings, version_languages, gen,
                 pack_format, log, codecVars>>

\* The entry line 185 writes for a mapped translation.
Mapped(language_path, translation) ==
  [name |-> "assets/" \o language_path,
   contents |-> dump_language(translation, pack_format)]

\* Lines 167-185 for one language file: KeyError ends the run before the
\* file's entry is written.
MapLanguage ==
  /\ pc = "languages"
  /\ lang <= Len(languages)
  /\ LET translation == load_language(languages[lang][2], pack_format)
         mapped == MapTranslation(translation, color_mappings, unhandled)
     IN  /\ unhandled' = mapped.unhandled
         /\ IF mapped.ok
              THEN /\ files' = [files EXCEPT ![version].entries =
                                  Append(@, Mapped(languages[lang][1],
                                                   mapped.translation))]
                   /\ lang' = lang + 1
                   /\ pc' = "languages"
              ELSE /\ pc' = "failed"
                   /\ UNCHANGED <<files, lang>>
  /\ UNCHANGED <<inputVars, color_mappings, version_languages, gen,
                 pack_format, log, codecVars>>

\* The warnings in descending order of key.
WarningsReversed(keys) ==
  [i \in 1..Len(keys) |-> Printed("Warning", keys[Len(keys) + 1 - i])]

\* The warnings of lines 186-187.
Warnings(keys) == [i \in 1..Len(keys) |-> Printed("Warning", keys[i])]

\* Lines 186-188, and main's loop goes to the next version or ends.
Report ==
  /\ pc = "languages"
  /\ lang > Len(languages)
  /\ log' = log \o Warnings(Sorted(unhandled))
                \o <<Printed("Generated", version)>>
  /\ IF gen < Len(version_languages)
       THEN gen' = gen + 1 /\ pc' = "resolve"
       ELSE gen' = gen /\ pc' = "done"
  /\ UNCHANGED <<inputVars, color_mappings, version_languages, pack_format,
                 lang, unhandled, files, codecVars>>

Next ==
  \/ MergeColors
  \/ DownloadVersion
  \/ VersionNotFound
  \/ DownloadFails
  \/ Resolve
  \/ Create
  \/ MapLanguage
  \/ Report

Spec == Init /\ [][Next]_vars

(***************************************************************************)
(* The codec alone: a translation is dumped and the text loaded back.      *)
(***************************************************************************)

\* The longest key, the longest value and the most items of a translation.
MaxKeyLen == 1
MaxValueLen == 1
MaxItems == 2

CodecAlphabet == {"a", "=", " ", "\n", "\r"}

\* The strings of at most n characters.
Strings(n) == UNION {[1..k -> CodecAlphabet] : k \in 0..n}

\* The dicts of at most MaxItems items.
Translations ==
  {d \in UNION {[1..k -> Strings(MaxKeyLen) \X Strings(MaxValueLen)] :
                  k \in 0..MaxItems} :
     \A i, j \in 1..Len(d) : d[i][1] = d[j][1] => i = j}

MainIdle ==
  /\ args_version = <<>>
  /\ args_color = <<>>
  /\ default_colors = <<>>
  /\ manifest = {}
  /\ pc = "idle"
  /\ color_mappings = <<>>
  /\ version_languages = <<>>
  /\ gen = 0
  /\ pack_format = Unbound
  /\ lang = 0
  /\ unhandled = {}
  /\ files = [v \in VersionPool |-> NoFile]
  /\ log = <<>>

CodecInit ==
  /\ MainIdle
  /\ c_pc = "start"
  /\ c_format \in 1..JsonFormat
  /\ c_translation \in Translations
  /\ c_contents = LangText(<<>>)
  /\ c_loaded = <<>>

\* dump_language(translation, pack_format)
Dump ==
  /\ c_pc = "start"
  /\ c_contents' = dump_language(c_translation, c_format)
  /\ c_pc' = "dumped"
  /\ UNCHANGED <<inputVars, mainVars, c_format, c_translation, c_loaded>>

\* load_language(contents, pack_format) of what was dumped
Load ==
  /\ c_pc = "dumped"
  /\ c_loaded' = load_language(c_contents, c_format)
  /\ c_pc' = "loaded"
  /\ UNCHANGED <<inputVars, mainVars, c_format, c_translation, c_contents>>

CodecNext ==
  \/ Dump
  \/ Load

SpecCodec == CodecInit /\ [][CodecNext]_vars

(***************************************************************************)
(* Reading the run: what a reader of the inputs, of the archives and of    *)
(* the printed lines sees.                                                 *)
(***************************************************************************)

\* The last rule of color_mappings whose prefix starts key, 0 when none does.
LastRule(key) ==
  LET hits == {i \in 1..Len(color_mappings) :
                 StartsWith(key, color_mappings[i][1])}
  IN  IF hits = {} THEN 0 ELSE CHOOSE i \in hits : \A j \in hits : j <= i

\* The last entry of pack_format_map whose key starts v, 0 when none does.
LastEntry(v) ==
  LET hits == {i \in 1..Len(pack_format_map) :
                 StartsWith(v, pack_format_map[i][1])}
  IN  IF hits = {} THEN 0 ELSE CHOOSE i \in hits : \A j \in hits : j <= i

\* The last rule matching key names a color color_codes lacks.
UnknownColor(key) ==
  /\ LastRule(key) # 0
  /\ color_mappings[LastRule(key)][2] \notin DOMAIN color_codes

\* The (key, value) items a text holds, read as written: the members of a
\* JSON object; of a key-value text, one item per non-empty line, cut at
\* the line's first '=' (line ends may be \r\n).
ReadItems(contents) ==
  IF contents.json THEN contents.members
  ELSE LET lines == SelectSeq(Split(Remove(contents.text, "\r"), "\n"),
                              LAMBDA l : l # <<>>)
       IN  [i \in 1..Len(lines) |-> Partition(lines[i], "=")]

\* The lines of a key-value text that are not blank and hold no '='.
BareLines(contents) ==
  LET lines == Split(Remove(contents.text, "\r"), "\n")
  IN  {lines[i] : i \in {j \in 1..Len(lines) :
                           /\ RStrip(lines[j]) # <<>>
                           /\ Find(lines[j], "=", 1) = 0}}

\* generate_pack is past the guess of the pack format of the version at gen:
\* it is mapping language files, has ended, or failed while mapping.
Mapping ==
  /\ gen >= 1
  /\ \/ pc \in {"languages", "done"}
     \/ pc = "failed" /\ pack_format # Unbound

\* The entries written after pack.mcmeta: Written[j] is that of languages[j].
Written == Tail(files[version].entries)

\* The keys of the language files of build b that start with 'subtitles.'
\* and that no rule matches.
Unresolved(b) ==
  LET v == version_languages[b][1]
      ls == version_languages[b][2]
      f == pack_format_map[LastEntry(v)][2]
  IN  UNION {{k \in DictKeys(load_language(ls[j][2], f)) :
                StartsWith(k, SubtitlesPrefix) /\ LastRule(k) = 0} :
             j \in 1..Len(ls)}

\* Build b cannot end: its version has no pack format, or a key of one of
\* its language files gets a color color_codes lacks.
Fatal(b) ==
  LET v == version_languages[b][1]
      ls == version_languages[b][2]
  IN  \/ LastEntry(v) = 0
      \/ \E j \in 1..Len(ls) :
           \E k \in DictKeys(load_language(ls[j][2],
                                           pack_format_map[LastEntry(v)][2])) :
             UnknownColor(k)

\* The lines printed since the last 'Generating pack' line.
LastGenerating ==
  CHOOSE i \in 1..Len(log) :
    /\ log[i].msg = "Generating"
    /\ \A j \in (i + 1)..Len(log) : log[j].msg # "Generating"
Segment == SubSeq(log, LastGenerating + 1, Len(log))

\* How many printed lines say msg.
Count(msg) == Cardinality({i \in 1..Len(log) : log[i].msg = msg})

(***************************************************************************)
(* Claims                                                                  *)
(***************************************************************************)

\* C1: every key of every language file gets the color of the LAST rule of
\* color_mappings whose prefix starts the key, and the written value is that
\* one color code followed by the loaded value; color_mappings is the
\* defaults followed by the -c flags, so a flag with the prefix of a default
\* decides the color.
C1_LastRuleWins ==
  /\ pc # "main" => color_mappings = default_colors \o args_color
  /\ Mapping =>
       \A j \in 1..Len(Written) :
         LET loaded == load_language(languages[j][2], pack_format)
             out == ReadItems(Written[j].contents)
         IN  \A k \in DictKeys(loaded) :
               LastRule(k) # 0 =>
                 /\ k \in DictKeys(out)
                 /\ DictGet(out, k) =
                      color_codes[color_mappings[LastRule(k)][2]]
                        \o DictGet(loaded, k)

\* A flag repeats the prefix of a default, and the file written holds the
\* anvil key with the flag's color.
C1_Witness ==
  /\ Mapping
  /\ pc = "done"
  /\ args_color = << <<BlockPrefix, "gold">> >>
  /\ \E j \in 1..Len(Written) :
       LET out == ReadItems(Written[j].contents)
       IN  /\ KeyAnvil \in DictKeys(out)
           /\ StartsWith(DictGet(out, KeyAnvil), color_codes["gold"])

\* C2 as stated: when a rule names a color color_codes lacks, the build of
\* the version fails, and when it fails no archive of the version exists.
C2_Original ==
  (gen >= 1 /\ \E i \in 1..Len(color_mappings) :
                 color_mappings[i][2] \notin DOMAIN color_codes) =>
    /\ Count("Generated") = 0
    /\ (pc = "failed" /\ pack_format # Unbound) => ~files[version].exists

\* C2, amended: a color color_codes lacks is fatal exactly for a language
\* file holding a key whose last matching rule names it.  The build fails
\* while that file is mapped: the archive exists, holds pack.mcmeta and the
\* entries of the files before it, and never gets an entry for that file.
C2_UnknownColorFailsWhileMapping ==
  Mapping =>
    /\ \A j \in 1..Len(Written) :
         \A k \in DictKeys(load_language(languages[j][2], pack_format)) :
           ~UnknownColor(k)
    /\ pc = "failed" =>
         /\ files[version].exists
         /\ Len(files[version].entries) = lang
         /\ \E k \in DictKeys(load_language(languages[lang][2], pack_format)) :
              UnknownColor(k)
    /\ (pc = "languages" /\ lang <= Len(languages)) =>
         Len(files[version].entries) = lang

\* The build failed on its second language file, the first one written.
C2_Witness ==
  /\ Mapping
  /\ pc = "failed"
  /\ lang = 2
  /\ Len(files[version].entries) = 2

\* C3 as stated: the pack format is that of the last matching entry, '1.12'
\* gets 3, '1.19' gets 9, and '1.99' is a version no key starts: it is
\* fatal before the archive is created.
C3_Original ==
  (gen >= 1 /\ pc # "resolve") =>
    /\ version = Str_1_12 => pack_format = 3
    /\ version = Str_1_19 => pack_format = 9
    /\ version = Str_1_99 => (pc = "failed" /\ ~files[version].exists)

\* C3, amended: the pack format is that of the LAST entry of pack_format_map
\* whose key starts the version: '1.12' gets 3, '1.19' gets 9, and '1.99'
\* gets 2, its key '1.9'.  A version no key starts (as '2.0') is fatal
\* before the archive is created and before a language file is loaded.
C3_LastEntryWins ==
  (gen >= 1 /\ pc # "resolve") =>
    /\ LastEntry(version) # 0 =>
         pack_format = pack_format_map[LastEntry(version)][2]
    /\ LastEntry(version) = 0 =>
         /\ pc = "failed"
         /\ pack_format = Unbound
         /\ ~files[version].exists
         /\ log[Len(log)] = Printed("Generating", version)
    /\ version = Str_1_12 => pack_format = 3
    /\ version = Str_1_19 => pack_format = 9
    /\ version = Str_1_99 => pack_format = 2
    /\ version = Str_2_0 => pc = "failed"

\* The second version asked for is one no key starts, and the run failed
\* there with the pack of the first version built.
C3_Witness ==
  /\ gen = 2
  /\ pc = "failed"
  /\ version = Str_2_0
  /\ version_languages[1][1] = Str_1_16_5
  /\ files[Str_1_16_5].exists

NoNewline(s) == \A i \in 1..Len(s) : s[i] \notin {"\n", "\r"}

\* C5: for a pack format below 4 and a translation whose keys hold no '='
\* and whose keys and values hold no newline, loading what dump_language
\* wrote gives the translation back.
C5_LegacyRoundTrip ==
  (/\ c_pc = "loaded"
   /\ c_format < JsonFormat
   /\ \A i \in 1..Len(c_translation) :
        /\ Find(c_translation[i][1], "=", 1) = 0
        /\ NoNewline(c_translation[i][1])
        /\ NoNewline(c_translation[i][2]))
    => DictEq(c_loaded, c_translation)

\* C6: the keys starting with 'subtitles.' that no rule matches are
\* reported once each, in sorted order, whatever the number of language
\* files holding them, and only after every file was mapped; such a key
\* never fails the build.
C6_UnresolvedReportedOnce ==
  /\ (gen >= 1 /\ pc \in {"create", "languages"}) =>
       log[Len(log)].msg = "Generating"
  /\ (gen >= 1 /\ (pc = "done" \/ (pc = "resolve" /\ gen >= 2))) =>
       LET b == IF pc = "done" THEN gen ELSE gen - 1
           n == Len(Segment)
       IN  /\ n = Cardinality(Unresolved(b)) + 1
           /\ Segment[n] = Printed("Generated", version_languages[b][1])
           /\ \A i \in 1..(n - 1) :
                /\ Segment[i].msg = "Warning"
                /\ Segment[i].arg \in Unresolved(b)
           /\ \A i \in 1..(n - 2) : StrLess(Segment[i].arg, Segment[i + 1].arg)
  /\ (Mapping /\ pc = "failed") =>
       \E k \in DictKeys(load_language(languages[lang][2], pack_format)) :
         UnknownColor(k)

\* A build ended whose two language files both hold the cow key: it is
\* reported once, after the bat key.
C6_Witness ==
  /\ pc = "done"
  /\ Len(version_languages[gen][2]) = 2
  /\ Len(Segment) = 3
  /\ Segment[1] = Printed("Warning", KeyBat)
  /\ Segment[2] = Printed("Warning", KeyCow)

\* The keys read on exactly one line (or member) of the text.
OnceIn(items) ==
  {items[i][1] : i \in {j \in 1..Len(items) :
                          \A h \in 1..Len(items) :
                            items[h][1] = items[j][1] => h = j}}

\* C7: a key that does not start with 'subtitles.' and that no rule matches
\* is never reported, and its value in the entry written equals its value
\* in the language file, with both codecs.
C7_OtherKeysUntouched ==
  Mapping =>
    \A j \in 1..Len(Written) :
      LET in == ReadItems(languages[j][2])
          out == ReadItems(Written[j].contents)
      IN  \A k \in OnceIn(in) :
            (~StartsWith(k, SubtitlesPrefix) /\ LastRule(k) = 0) =>
              /\ \A i \in 1..Len(log) : log[i] # Printed("Warning", k)
              /\ k \in DictKeys(out)
              /\ DictGet(out, k) = DictGet(in, k)

\* C8: a fatal error in the build of a version ends the run: that version
\* is not skipped, and no pack is generated for a later version.
C8_FatalEndsRun ==
  \A b \in 1..Len(version_languages) :
    Fatal(b) =>
      /\ gen <= b
      /\ Count("Generating") <= b
      /\ Count("Generated") < b
      /\ pc # "done"

\* The run failed in the build of a version with another one still to build.
C8_Witness ==
  /\ pc = "failed"
  /\ gen >= 1
  /\ gen < Len(version_languages)
  /\ Fatal(gen)

\* C9: the keys of the entry written for a language file are the keys
\* load_language gave for that file, each once.
C9_KeysPreserved ==
  Mapping =>
    \A j \in 1..Len(Written) :
      LET out == ReadItems(Written[j].contents)
      IN  /\ DictKeys(out) =
               DictKeys(load_language(languages[j][2], pack_format))
          /\ Len(out) = Cardinality(DictKeys(out))

\* An entry was written for a file with colored, unresolved and other keys.
C9_Witness ==
  /\ Mapping
  /\ Len(Written) >= 1
  /\ LastRule(KeyAnvil) # 0
  /\ LastRule(KeyCow) = 0
  /\ {KeyAnvil, KeyCow, KeyGui} \subseteq DictKeys(ReadItems(Written[1].contents))

\* C10: main fetches the language files of every version before it
\* generates the first pack: when a version asked for is not in the manifest,
\* or a download fails, the run ends with no pack generated, wherever the
\* version is in the list.
C10_FetchAllFirst ==
  /\ (gen >= 1 \/ log # <<>> \/ \E v \in VersionPool : files[v].exists) =>
       /\ Len(version_languages) = Len(args_version)
       /\ \A i \in 1..Len(args_version) :
            /\ version_languages[i][1] = args_version[i]
            /\ args_version[i] \in manifest
  /\ ((\E i \in 1..Len(args_version) : args_version[i] \notin manifest)
        \/ (pc = "failed" /\ gen = 0)) =>
       /\ log = <<>>
       /\ \A v \in VersionPool : ~files[v].exists
       /\ pc \in {"main", "download", "failed"}

\* The first version was fetched, the second one is not in the manifest and
\* the run failed.
C10_Witness ==
  /\ pc = "failed"
  /\ Len(args_version) = 2
  /\ Len(version_languages) = 1
  /\ args_version[2] \notin manifest

====
